---- MODULE Spec2Model ----
(***************************************************************************)
(* A model of generator/client.go: the IR construction of the twirp Dart   *)
(* client generator.  Go strings that the code takes apart (type strings,  *)
(* type names, file paths) are sequences of one-character strings, so that *)
(* strings.Replace, strings.Split, strings.HasPrefix, path.Dir, path.Join  *)
(* are computed character by character as the Go library computes them.    *)
(* Enumerations of the descriptor library (field kinds, labels) are TLA+   *)
(* strings.                                                                *)
(***************************************************************************)
EXTENDS Integers, Sequences, FiniteSets, TLC

VARIABLES
    fd,           \* newField: the field descriptor f
    owner,        \* newField: the owning message descriptor m
    fieldOut,     \* newField: <<>> before the call, <<ModelField>> after
    fileName,     \* d.Name of the schema file
    fileDeps,     \* d.Dependency
    msgTypes,     \* d.MessageType: the message descriptors
    svcTypes,     \* d.Service: sequence of services, each a sequence of methods
    Models,       \* ctx.Models (a Model pointer is an index into it, 0 is nil)
    modelLookup,  \* ctx.modelLookup: name -> Model pointer
    Services,     \* ctx.Services
    Imports,      \* ctx.Imports
    pc,           \* position in CreateClientAPI / ApplyMarshalFlags
    emitted,      \* the Context handed to t.Execute: <<>> or <<[Models, Imports]>>
    topM,         \* ApplyMarshalFlags: index of m in the range over ctx.Models
    topF,         \* ApplyMarshalFlags: index of f in the range over m.Fields
    stack,        \* call stack of enableMarshal / enableUnmarshal frames
    diag,         \* arguments of log.Fatalf: <<>> or <<type, field name>>
    lookups,      \* set of <<model, field index, key>>: every modelLookup read
    runs,         \* completed runs of ApplyMarshalFlags
    afterFirst    \* the flags after the first completed run: <<>> or <<flags>>

vars == <<fd, owner, fieldOut, fileName, fileDeps, msgTypes, svcTypes, Models,
          modelLookup, Services, Imports, pc, emitted, topM, topF, stack, diag,
          lookups, runs, afterFirst>>

-----------------------------------------------------------------------------
(* Go strings *)

\* s[i:] with a 0-based i, as Go slices
From(s, i) == SubSeq(s, i + 1, Len(s))

\* s[:i]
Upto(s, i) == SubSeq(s, 1, i)

HasPrefix(s, p) == Len(s) >= Len(p) /\ Upto(s, Len(p)) = p

HasSuffix(s, p) == Len(s) >= Len(p) /\ From(s, Len(s) - Len(p)) = p

TrimPrefix(s, p) == IF HasPrefix(s, p) THEN From(s, Len(p)) ELSE s

\* strings.Replace(s, old, new, -1) for a non-empty old: every non-overlapping
\* occurrence, left to right
RECURSIVE ReplaceAll(_, _, _)
ReplaceAll(s, old, new) ==
    IF Len(s) < Len(old) THEN s
    ELSE IF HasPrefix(s, old) THEN new \o ReplaceAll(From(s, Len(old)), old, new)
    ELSE <<s[1]>> \o ReplaceAll(From(s, 1), old, new)

\* strings.Split(s, sep) for a one-character sep: Len = 1 + the number of sep in s
RECURSIVE SplitAcc(_, _, _)
SplitAcc(s, sep, cur) ==
    IF s = <<>> THEN <<cur>>
    ELSE IF s[1] = sep THEN <<cur>> \o SplitAcc(From(s, 1), sep, <<>>)
    ELSE SplitAcc(From(s, 1), sep, Append(cur, s[1]))

Split(s, sep) == SplitAcc(s, sep, <<>>)

\* strings.Join(parts, sep)
RECURSIVE JoinWith(_, _)
JoinWith(parts, sep) ==
    IF parts = <<>> THEN <<>>
    ELSE IF Len(parts) = 1 THEN parts[1]
    ELSE parts[1] \o sep \o JoinWith(Tail(parts), sep)

\* strings.LastIndex(s, c) + 1 for a character c: 0 when c is not in s
LastIndexOf(s, c) ==
    LET hits == {i \in 1..Len(s) : s[i] = c}
    IN  IF hits = {} THEN 0 ELSE CHOOSE i \in hits : \A j \in hits : j <= i

Lowers == <<"a","b","c","d","e","f","g","h","i","j","k","l","m",
            "n","o","p","q","r","s","t","u","v","w","x","y","z">>

Uppers == <<"A","B","C","D","E","F","G","H","I","J","K","L","M",
            "N","O","P","Q","R","S","T","U","V","W","X","Y","Z">>

ToUpperCh(c) ==
    IF \E i \in 1..Len(Lowers) : Lowers[i] = c
    THEN Uppers[CHOOSE i \in 1..Len(Lowers) : Lowers[i] = c] ELSE c

ToLowerCh(c) ==
    IF \E i \in 1..Len(Uppers) : Uppers[i] = c
    THEN Lowers[CHOOSE i \in 1..Len(Uppers) : Uppers[i] = c] ELSE c

ToUpper(s) == [i \in 1..Len(s) |-> ToUpperCh(s[i])]

ToLower(s) == [i \in 1..Len(s) |-> ToLowerCh(s[i])]

-----------------------------------------------------------------------------
(* String literals of client.go *)

StrString == <<"S","t","r","i","n","g">>

StrStringJSON == <<"s","t","r","i","n","g">>

StrInt == <<"i","n","t">>

StrDouble == <<"d","o","u","b","l","e">>

StrNumber == <<"n","u","m","b","e","r">>

StrBool == <<"b","o","o","l">>

StrBoolean == <<"b","o","o","l","e","a","n">>

StrDateTime == <<"D","a","t","e","T","i","m","e">>

StrJSONSuffix == <<"J","S","O","N">>

StrListOpen == <<"L","i","s","t","<">>

StrClose == <<">">>

StrBrackets == <<"[","]">>

StrMapOpen == <<"M","a","p","<">>

StrComma == <<",">>

TimestampTypeName == <<".","g","o","o","g","l","e",".","p","r","o","t","o","b","u","f",".","T","i","m","e","s","t","a","m","p">>

TimestampProto == <<"g","o","o","g","l","e","/","p","r","o","t","o","b","u","f","/","t","i","m","e","s","t","a","m","p",".","p","r","o","t","o">>

ProtoExt == <<".","p","r","o","t","o">>

PbDartExt == <<".","p","b",".","d","a","r","t">>

DartAsync == <<"d","a","r","t",":","a","s","y","n","c">>

HttpPackage == <<"p","a","c","k","a","g","e",":","h","t","t","p","/","h","t","t","p",".","d","a","r","t">>

DartConvert == <<"d","a","r","t",":","c","o","n","v","e","r","t">>

StrDate == <<"D","a","t","e">>

-----------------------------------------------------------------------------
(* Descriptors (the decoded input) *)

\* descriptor.FieldDescriptorProto_Type
Kinds == {"TYPE_DOUBLE", "TYPE_FLOAT", "TYPE_INT64", "TYPE_UINT64", "TYPE_INT32",
          "TYPE_FIXED64", "TYPE_FIXED32", "TYPE_BOOL", "TYPE_STRING", "TYPE_GROUP",
          "TYPE_MESSAGE", "TYPE_BYTES", "TYPE_UINT32", "TYPE_ENUM", "TYPE_SFIXED32",
          "TYPE_SFIXED64", "TYPE_SINT32", "TYPE_SINT64"}

\* descriptor.FieldDescriptorProto_Label; "nil" is an unset Label pointer
Labels == {"nil", "LABEL_OPTIONAL", "LABEL_REQUIRED", "LABEL_REPEATED"}

FieldDesc(name, kind, label, typeName) ==
    [name |-> name, kind |-> kind, label |-> label, typeName |-> typeName]

MsgDesc(name, fields, nested, mapEntry) ==
    [name |-> name, field |-> fields, nested |-> nested, mapEntry |-> mapEntry]

-----------------------------------------------------------------------------
(* Type Mapper and Field Resolver *)

isRepeated(f) == f.label # "nil" /\ f.label = "LABEL_REPEATED"

removePkg(s) == LET p == Split(s, ".") IN p[Len(p)]

\* parts[i] of camelCase; Go panics on p[0:1] of an empty part, and no field name
\* drawn below has one
camelPart(i, p) ==
    IF i = 1 THEN p ELSE ToUpper(Upto(p, 1)) \o ToLower(From(p, 1))

camelCase(s) ==
    LET parts == Split(s, "_")
    IN  JoinWith([i \in 1..Len(parts) |-> camelPart(i, parts[i])], <<>>)

\* The scalar part of protoToDartType's switch: <<dartType, jsonType>>
scalarType(f) ==
    CASE f.kind = "TYPE_DOUBLE" -> <<StrDouble, StrNumber>>
      [] f.kind \in {"TYPE_FIXED32", "TYPE_FIXED64", "TYPE_INT32", "TYPE_INT64"}
            -> <<StrInt, StrNumber>>
      [] f.kind = "TYPE_STRING" -> <<StrString, StrStringJSON>>
      [] f.kind = "TYPE_BOOL" -> <<StrBool, StrBoolean>>
      [] f.kind = "TYPE_MESSAGE" ->
            IF f.typeName = TimestampTypeName
            THEN <<StrDateTime, StrStringJSON>>
            ELSE <<removePkg(f.typeName), removePkg(f.typeName) \o StrJSONSuffix>>
      [] OTHER -> <<StrString, StrStringJSON>>

\* <<dartType, internalType, jsonType>>
protoToDartType(f) ==
    LET t == scalarType(f)
    IN  IF isRepeated(f)
        THEN <<StrListOpen \o t[1] \o StrClose, t[1], t[2] \o StrBrackets>>
        ELSE <<t[1], t[1], t[2]>>

\* (*DescriptorProto).GetMapFields of the descriptor library
GetMapFields(desc) ==
    IF ~desc.mapEntry THEN <<>> ELSE <<desc.field[1], desc.field[2]>>

\* The assignments of the last two lines of newField
isMessageOf(f) == f.kind = "TYPE_MESSAGE"

isRepeatedOf(f) == isRepeated(f)

RECURSIVE newField(_, _)
RECURSIVE applyNested(_, _, _)
\* The range over m.GetNestedType() in newField: a pointer field is <<>> for nil
applyNested(field, f, nested) ==
    IF nested = <<>> THEN field
    ELSE LET n  == Head(nested)
             kv == GetMapFields(n)
         IN  IF ~HasSuffix(f.typeName, n.name) THEN applyNested(field, f, Tail(nested))
             ELSE IF kv = <<>> THEN applyNested(field, f, Tail(nested))
             ELSE LET mapKeyField   == newField(kv[1], n)
                      mapValueField == newField(kv[2], n)
                  IN  applyNested(
                          [field EXCEPT !.IsMap = TRUE,
                                        !.MapKeyField = <<mapKeyField>>,
                                        !.MapValueField = <<mapValueField>>,
                                        !.Type = StrMapOpen \o mapKeyField.Type \o StrComma
                                                 \o mapValueField.Type \o StrClose],
                          f, Tail(nested))

newField(f, m) ==
    LET t     == protoToDartType(f)
        field == [Name |-> camelCase(f.name), Type |-> t[1], InternalType |-> t[2],
                  JSONName |-> f.name, JSONType |-> t[3], IsMessage |-> FALSE,
                  IsRepeated |-> FALSE, IsMap |-> FALSE, MapKeyField |-> <<>>,
                  MapValueField |-> <<>>]
    IN  [applyNested(field, f, m.nested) EXCEPT !.IsMessage = isMessageOf(f),
                                                !.IsRepeated = isRepeatedOf(f)]

-----------------------------------------------------------------------------
(* The Field Resolver applied to one field descriptor *)

PkgPrefix == <<".","p",".">>

Qual(n) == PkgPrefix \o n

\* Wire names of fields: one without and one with an underscore
FieldNames == {<<"i","d">>, <<"m","y","_","i","d">>}

\* The synthetic map-entry type protoc nests in the owner of a map field, and a
\* hand-written nested message
EntryName == <<"F","E","n","t","r","y">>

InnerName == <<"I","n","n","e","r">>

OwnerName == <<"M">>

KeyKinds == {"TYPE_STRING", "TYPE_INT32", "TYPE_BOOL"}

\* <<kind, type name>> of a map's value field
ValueTypes == {<<"TYPE_STRING", <<>>>>, <<"TYPE_DOUBLE", <<>>>>, <<"TYPE_UINT32", <<>>>>,
               <<"TYPE_MESSAGE", Qual(<<"A">>)>>, <<"TYPE_MESSAGE", TimestampTypeName>>}

MapEntryDesc(kk, vt) ==
    MsgDesc(EntryName,
            <<FieldDesc(<<"k","e","y">>, kk, "LABEL_OPTIONAL", <<>>),
              FieldDesc(<<"v","a","l","u","e">>, vt[1], "LABEL_OPTIONAL", vt[2])>>,
            <<>>, TRUE)

InnerDesc == MsgDesc(InnerName, <<FieldDesc(<<"i","d">>, "TYPE_STRING", "LABEL_OPTIONAL", <<>>)>>,
                     <<>>, FALSE)

\* <<f, nested types of the owner>>: scalar and enum fields of every kind and label,
\* message fields, fields of a nested message type, and map fields, which protoc
\* always labels repeated and types by their map-entry type
FieldInputs ==
    {<<FieldDesc(n, k, l, <<>>), <<>>>> :
        n \in FieldNames, k \in Kinds \ {"TYPE_MESSAGE"}, l \in Labels}
    \cup {<<FieldDesc(n, "TYPE_MESSAGE", l, t), <<>>>> :
            n \in FieldNames, l \in Labels, t \in {Qual(<<"A">>), TimestampTypeName}}
    \cup {<<FieldDesc(n, "TYPE_MESSAGE", l, Qual(OwnerName \o <<".">> \o InnerName)),
            <<InnerDesc>>>> : n \in FieldNames, l \in Labels}
    \cup {<<FieldDesc(n, "TYPE_MESSAGE", "LABEL_REPEATED",
                      Qual(OwnerName \o <<".">> \o EntryName)),
            <<MapEntryDesc(kk, vt)>>>> :
            n \in FieldNames, kk \in KeyKinds, vt \in ValueTypes}

\* Values of the variables an operation does not use
IdleField ==
    /\ fd = FieldDesc(<<>>, "TYPE_STRING", "nil", <<>>)
    /\ owner = MsgDesc(<<>>, <<>>, <<>>, FALSE)
    /\ fieldOut = <<>>

IdleFile ==
    /\ fileName = <<>>
    /\ fileDeps = <<>>

IdleSchema ==
    /\ msgTypes = <<>>
    /\ svcTypes = <<>>

IdleContext ==
    /\ Models = <<>>
    /\ modelLookup = <<>>
    /\ Services = <<>>
    /\ Imports = <<>>
    /\ emitted = <<>>

IdleClosure ==
    /\ topM = 0
    /\ topF = 0
    /\ stack = <<>>
    /\ diag = <<>>
    /\ lookups = {}
    /\ runs = 0
    /\ afterFirst = <<>>

InitFields ==
    /\ \E in \in FieldInputs :
          /\ fd = in[1]
          /\ owner = MsgDesc(OwnerName, <<in[1]>>, in[2], FALSE)
    /\ fieldOut = <<>>
    /\ pc = "newField"
    /\ IdleFile /\ IdleSchema /\ IdleContext /\ IdleClosure

\* One call newField(f, m, d, gen)
NewField ==
    /\ pc = "newField"
    /\ fieldOut' = <<newField(fd, owner)>>
    /\ pc' = "fieldDone"
    /\ UNCHANGED <<fd, owner, fileName, fileDeps, msgTypes, svcTypes, Models,
                   modelLookup, Services, Imports, emitted, topM, topF, stack, diag,
                   lookups, runs, afterFirst>>

NextFields == NewField

SpecFields == InitFields /\ [][NextFields]_vars

-----------------------------------------------------------------------------
(* Package path of the Go library, and the Import Resolver *)

\* os.PathSeparator of the platform protoc plugins are built for
PathSeparator == "/"

\* The loop of path.Clean over the components of a path: "" and "." are dropped,
\* ".." removes the component before it, or stays when there is none (dropped
\* when the path is rooted)
RECURSIVE cleanComps(_, _, _)
cleanComps(comps, out, rooted) ==
    IF comps = <<>> THEN out
    ELSE LET c == Head(comps)
         IN  IF c = <<>> \/ c = <<".">> THEN cleanComps(Tail(comps), out, rooted)
             ELSE IF c = <<".",".">>
                  THEN IF out # <<>> /\ out[Len(out)] # <<".",".">>
                       THEN cleanComps(Tail(comps), Upto(out, Len(out) - 1), rooted)
                       ELSE IF rooted THEN cleanComps(Tail(comps), out, rooted)
                       ELSE cleanComps(Tail(comps), Append(out, c), rooted)
             ELSE cleanComps(Tail(comps), Append(out, c), rooted)

\* path.Clean
Clean(p) ==
    IF p = <<>> THEN <<".">>
    ELSE LET rooted == p[1] = "/"
             body   == JoinWith(cleanComps(Split(p, "/"), <<>>, rooted), <<"/">>)
         IN  IF rooted THEN <<"/">> \o body
             ELSE IF body = <<>> THEN <<".">> ELSE body

\* path.Dir
Dir(p) == Clean(Upto(p, LastIndexOf(p, "/")))

\* path.Base of a path that does not end in a slash
Base(p) == IF p = <<>> THEN <<".">> ELSE From(p, LastIndexOf(p, "/"))

\* path.Join of two elements
Join(a, b) ==
    IF a = <<>> /\ b = <<>> THEN <<>>
    ELSE IF a = <<>> THEN Clean(b)
    ELSE Clean(a \o <<"/">> \o b)

\* dartFilename(dep): the binding file of a schema file, its base name with the
\* extension replaced
dartFilename(name) ==
    LET base == Base(name)
    IN  (IF HasSuffix(base, ProtoExt) THEN Upto(base, Len(base) - Len(ProtoExt)) ELSE base)
        \o PbDartExt

\* The range over sourceComponents in ApplyImports: <<importPath, distanceFromRoot>>
RECURSIVE trimComponents(_, _, _)
trimComponents(comps, importPath, distanceFromRoot) ==
    IF comps = <<>> THEN <<importPath, distanceFromRoot>>
    ELSE IF HasPrefix(importPath, Head(comps))
         THEN trimComponents(Tail(comps), TrimPrefix(importPath, Head(comps)),
                             distanceFromRoot - 1)
         ELSE trimComponents(Tail(comps), importPath, distanceFromRoot)

\* fullPath = path.Join("..", fullPath), distanceFromRoot times
RECURSIVE climb(_, _)
climb(fullPath, distanceFromRoot) ==
    IF distanceFromRoot <= 0 THEN fullPath
    ELSE climb(Join(<<".",".">>, fullPath), distanceFromRoot - 1)

\* The body of the range over d.Dependency for one dep that is not skipped
depImport(name, dep) ==
    LET sourceComponents == Split(Dir(name), PathSeparator)
        t == trimComponents(sourceComponents, Dir(dep), Len(sourceComponents))
    IN  climb(Join(t[1], dartFilename(dep)), t[2])

\* skipsDep without the skip: the timestamp schema gets an import of its own
skipsDepNever(dep) == FALSE

\* The skip of the well-known timestamp schema
skipsDep(dep) == dep = TimestampProto

RECURSIVE depImports(_, _)
depImports(name, deps) ==
    IF deps = <<>> THEN <<>>
    ELSE IF skipsDep(Head(deps)) THEN depImports(name, Tail(deps))
    ELSE <<depImport(name, Head(deps))>> \o depImports(name, Tail(deps))

\* The imports appended before the range over the dependencies
fixedImports(services, name) ==
    (IF Len(services) > 0 THEN <<DartAsync, HttpPackage>> ELSE <<>>)
    \o <<DartConvert, ReplaceAll(name, ProtoExt, <<>>) \o PbDartExt>>

\* ctx.ApplyImports(d)
ApplyImports ==
    /\ pc = "imports"
    /\ Imports' = fixedImports(Services, fileName) \o depImports(fileName, fileDeps)
    /\ pc' = "execute"
    /\ UNCHANGED <<fd, owner, fieldOut, fileName, fileDeps, msgTypes, svcTypes, Models,
                   modelLookup, Services, emitted, topM, topF, stack, diag, lookups,
                   runs, afterFirst>>

-----------------------------------------------------------------------------
(* The Import Resolver applied to one schema file *)

\* The longest dependency list drawn
MaxDeps == 2

\* Directory names: "a" is a string prefix of "ab"
DirNames == {<<"a">>, <<"a","b">>, <<"c">>}

\* Directories as component sequences: the root, one level, two levels
DirShapes ==
    {<<>>} \cup {<<x>> : x \in DirNames} \cup {<<x, y>> : x \in DirNames, y \in DirNames}

PathOf(dir, base) == JoinWith(Append(dir, base), <<"/">>)

SourceBase == <<"f",".","p","r","o","t","o">>

DepBase == <<"d",".","p","r","o","t","o">>

OtherDepBase == <<"e",".","p","r","o","t","o">>

SourceFiles == {PathOf(dir, SourceBase) : dir \in DirShapes}

\* The timestamp schema, a schema file in every directory, and a second one in
\* the root and in "a"
DepFiles ==
    {TimestampProto} \cup {PathOf(dir, DepBase) : dir \in DirShapes}
    \cup {PathOf(dir, OtherDepBase) : dir \in {<<>>, <<<<"a">>>>}}

SeqsUpTo(S, n) == UNION {[1..k -> S] : k \in 0..n}

AService(methods) == [Name |-> <<"S">>, Package |-> <<"p">>, Methods |-> methods]

InitImports ==
    /\ fileName \in SourceFiles
    /\ fileDeps \in SeqsUpTo(DepFiles, MaxDeps)
    /\ Services \in {<<>>, <<AService(<<>>)>>}
    /\ Models = <<>>
    /\ modelLookup = <<>>
    /\ Imports = <<>>
    /\ emitted = <<>>
    /\ pc = "imports"
    /\ IdleField /\ IdleSchema /\ IdleClosure

NextImports == ApplyImports

SpecImports == InitImports /\ [][NextImports]_vars

-----------------------------------------------------------------------------
(* The schema files CreateClientAPI is run on *)

\* Messages of a schema file, fields of a message, methods of a service
MaxMsgs == 3

MaxFields == 1

MaxMethods == 1

\* Message names in declaration order; the last message may instead be called
\* Date, the name of the synthetic Model
NamePool == <<<<"A">>, <<"B">>, <<"C">>, <<"E">>, <<"G">>>>

MsgName(i, n, lastIsDate) == IF lastIsDate /\ i = n THEN StrDate ELSE NamePool[i]

\* A message of another schema file
ForeignTypeName == <<".","q",".","X">>

FieldNamePool == <<<<"x">>, <<"y">>, <<"z">>>>

StringMapEntry == MapEntryDesc("TYPE_STRING", <<"TYPE_STRING", <<>>>>)

\* <<kind, label, type name, nested types of the owner>> of the fields drawn: a string,
\* singular and repeated references to the file's messages, to the well-known
\* timestamp and to a foreign message, and a map of strings
FieldChoices(names) ==
    {<<"TYPE_STRING", "LABEL_OPTIONAL", <<>>, <<>>>>}
    \cup {<<"TYPE_MESSAGE", l, t, <<>>>> :
            l \in {"LABEL_OPTIONAL", "LABEL_REPEATED"},
            t \in {Qual(nm) : nm \in names} \cup {TimestampTypeName, ForeignTypeName}}
    \cup {<<"TYPE_MESSAGE", "LABEL_REPEATED", <<".">> \o EntryName, <<StringMapEntry>>>>}

\* The type name of a map field is that of the entry type nested in its owner
MsgOf(name, choices) ==
    MsgDesc(name,
            [i \in 1..Len(choices) |->
                FieldDesc(FieldNamePool[i], choices[i][1], choices[i][2],
                          IF choices[i][4] # <<>> THEN Qual(name) \o choices[i][3]
                          ELSE choices[i][3])],
            IF \E i \in 1..Len(choices) : choices[i][4] # <<>> THEN <<StringMapEntry>> ELSE <<>>,
            FALSE)

MethodDesc(in, out) ==
    [name |-> <<"G","e","t">>, inputType |-> Qual(in), outputType |-> Qual(out)]

ServiceDesc(methods) == [name |-> <<"S">>, method |-> methods]

Package == <<"p">>

InitSchema ==
    \E n \in 1..MaxMsgs, lastIsDate \in BOOLEAN :
        LET names == {MsgName(i, n, lastIsDate) : i \in 1..n}
        IN  /\ \E fs \in [1..n -> SeqsUpTo(FieldChoices(names), MaxFields)] :
                 msgTypes = [i \in 1..n |-> MsgOf(MsgName(i, n, lastIsDate), fs[i])]
            /\ \E ms \in SeqsUpTo({MethodDesc(a, b) : a \in names, b \in names}, MaxMethods) :
                 svcTypes \in {<<>>, <<ServiceDesc(ms)>>}

Init ==
    /\ InitSchema
    /\ fileName = PathOf(<<<<"a">>>>, SourceBase)
    /\ fileDeps = <<TimestampProto, PathOf(<<<<"c">>>>, DepBase)>>
    /\ Models = <<>>
    /\ modelLookup = <<>>
    /\ Services = <<>>
    /\ Imports = <<>>
    /\ emitted = <<>>
    /\ pc = "build"
    /\ IdleField /\ IdleClosure

-----------------------------------------------------------------------------
(* CreateClientAPI *)

NewModel(name, primitive, fields) ==
    [Name |-> name, Primitive |-> primitive, Fields |-> fields,
     CanMarshal |-> FALSE, CanUnmarshal |-> FALSE]

\* ctx.AddModel(m) on <<ctx.Models, ctx.modelLookup>>
AddModel(ctx, m) ==
    <<Append(ctx[1], m),
      [nm \in DOMAIN ctx[2] \cup {m.Name} |->
          IF nm = m.Name THEN Len(ctx[1]) + 1 ELSE ctx[2][nm]]>>

RECURSIVE addModels(_, _)
addModels(ctx, msgs) ==
    IF msgs = <<>> THEN ctx
    ELSE LET m == Head(msgs)
         IN  addModels(AddModel(ctx, NewModel(m.name, FALSE,
                           [i \in 1..Len(m.field) |-> newField(m.field[i], m)])),
                       Tail(msgs))

\* The range over d.GetMessageType()
BuildModels ==
    /\ pc = "build"
    /\ LET ctx == addModels(<<Models, modelLookup>>, msgTypes)
       IN  /\ Models' = ctx[1]
           /\ modelLookup' = ctx[2]
    /\ pc' = "services"
    /\ UNCHANGED <<fd, owner, fieldOut, fileName, fileDeps, msgTypes, svcTypes,
                   Services, Imports, emitted, topM, topF, stack, diag, lookups, runs,
                   afterFirst>>

lowerFirst(s) == ToLower(Upto(s, 1)) \o From(s, 1)

newServiceMethod(m) ==
    [Name |-> lowerFirst(m.name), Path |-> m.name,
     InputArg |-> lowerFirst(removePkg(m.inputType)),
     InputType |-> removePkg(m.inputType), OutputType |-> removePkg(m.outputType)]

\* The range over d.GetService()
BuildServices ==
    /\ pc = "services"
    /\ Services' = Services \o
          [i \in 1..Len(svcTypes) |->
              [Name |-> svcTypes[i].name, Package |-> Package,
               Methods |-> [j \in 1..Len(svcTypes[i].method) |->
                               newServiceMethod(svcTypes[i].method[j])]]]
    /\ pc' = "mark"
    /\ UNCHANGED <<fd, owner, fieldOut, fileName, fileDeps, msgTypes, svcTypes, Models,
                   modelLookup, Imports, emitted, topM, topF, stack, diag, lookups,
                   runs, afterFirst>>

\* Some method of some service has m as its input (output) type
isInput(services, m) ==
    \E s \in 1..Len(services) : \E k \in 1..Len(services[s].Methods) :
        m.Name = services[s].Methods[k].InputType

isOutput(services, m) ==
    \E s \in 1..Len(services) : \E k \in 1..Len(services[s].Methods) :
        m.Name = services[s].Methods[k].OutputType

\* markModel with the two comparisons exchanged: CanMarshal from the output type
markModelSwapped(services, m) ==
    [m EXCEPT !.CanMarshal = @ \/ isOutput(services, m),
              !.CanUnmarshal = @ \/ isInput(services, m)]

\* One Model after the range over ctx.Models, ctx.Services and s.Methods
markModel(services, m) ==
    [m EXCEPT !.CanMarshal = @ \/ isInput(services, m),
              !.CanUnmarshal = @ \/ isOutput(services, m)]

MarkBaseline ==
    /\ pc = "mark"
    /\ Models' = [i \in 1..Len(Models) |-> markModel(Services, Models[i])]
    /\ pc' = "addDate"
    /\ UNCHANGED <<fd, owner, fieldOut, fileName, fileDeps, msgTypes, svcTypes,
                   modelLookup, Services, Imports, emitted, topM, topF, stack, diag,
                   lookups, runs, afterFirst>>

\* ctx.AddModel(&Model{Name: "Date", Primitive: true})
AddDateModel ==
    /\ pc = "addDate"
    /\ LET ctx == AddModel(<<Models, modelLookup>>, NewModel(StrDate, TRUE, <<>>))
       IN  /\ Models' = ctx[1]
           /\ modelLookup' = ctx[2]
    /\ pc' = "imports"
    /\ UNCHANGED <<fd, owner, fieldOut, fileName, fileDeps, msgTypes, svcTypes,
                   Services, Imports, emitted, topM, topF, stack, diag, lookups, runs,
                   afterFirst>>

\* t.Execute(b, ctx): the Context is handed to the emitter as CreateClientAPI
\* built it, the call of ApplyMarshalFlags being disabled
Execute ==
    /\ pc = "execute"
    /\ emitted' = <<[Models |-> Models, Services |-> Services, Imports |-> Imports]>>
    /\ pc' = "returned"
    /\ UNCHANGED <<fd, owner, fieldOut, fileName, fileDeps, msgTypes, svcTypes, Models,
                   modelLookup, Services, Imports, topM, topF, stack, diag, lookups,
                   runs, afterFirst>>

-----------------------------------------------------------------------------
(* ApplyMarshalFlags, enableMarshal, enableUnmarshal *)

\* Calls of ApplyMarshalFlags on one Context
MaxRuns == 2

\* ctx.modelLookup[key]: the Model pointer, nil (0) for a missing key
Lookup(key) == IF key \in DOMAIN modelLookup THEN modelLookup[key] ELSE 0

\* "skip primitive types and WKT Timestamps"
skipsField(f) == ~f.IsMessage \/ f.Type = StrDateTime

\* baseType of the loop in ApplyMarshalFlags
baseTypeOf(f) ==
    IF f.IsRepeated
    THEN ReplaceAll(ReplaceAll(f.Type, StrListOpen, <<>>), StrClose, <<>>)
    ELSE f.Type

\* The key enableMarshal and enableUnmarshal look a field's Model up by
recursionKey(f) == f.Type

\* markMarshal as a toggle: m.CanMarshal = !m.CanMarshal
markMarshalToggle(models, p) == [models EXCEPT ![p].CanMarshal = ~@]

\* m.CanMarshal = true
markMarshal(models, p) == [models EXCEPT ![p].CanMarshal = TRUE]

\* m.CanUnmarshal = true
markUnmarshal(models, p) == [models EXCEPT ![p].CanUnmarshal = TRUE]

Frame(dir, p, f) == [dir |-> dir, m |-> p, f |-> f]

Flags(models) ==
    [i \in 1..Len(models) |-> <<models[i].CanMarshal, models[i].CanUnmarshal>>]

\* A goroutine stack is finite and a frame too many ends the process ("stack
\* overflow").  A stack of more frames than there are Models holds some Model
\* twice, and then the recursion repeats itself without end: no branch of
\* enableMarshal or enableUnmarshal reads a flag.
stackExhausted(st) == Len(st) > Len(Models)

\* The call ctx.enableMarshal(p) or ctx.enableUnmarshal(p) from a caller whose
\* stack is st: the first statement writes through p, a nil p panics
Enter(dir, p, st) ==
    IF p = 0
    THEN /\ pc' = "panic"
         /\ UNCHANGED <<Models, stack>>
    ELSE /\ Models' = IF dir = "marshal" THEN markMarshal(Models, p)
                      ELSE markUnmarshal(Models, p)
         /\ stack' = Append(st, Frame(dir, p, 1))
         /\ pc' = IF stackExhausted(Append(st, Frame(dir, p, 1))) THEN "overflow"
                  ELSE "enable"

\* A call ctx.ApplyMarshalFlags() at the place of the disabled call in
\* CreateClientAPI, or once more on the Context a completed call left
CallApplyMarshalFlags ==
    /\ pc \in {"execute", "done"}
    /\ runs < MaxRuns
    /\ pc' = "top"
    /\ topM' = 1
    /\ topF' = 1
    /\ UNCHANGED <<fd, owner, fieldOut, fileName, fileDeps, msgTypes, svcTypes, Models,
                   modelLookup, Services, Imports, emitted, stack, diag, lookups, runs,
                   afterFirst>>

\* The two range loops of ApplyMarshalFlags up to the field's baseType
TopLoop ==
    /\ pc = "top"
    /\ IF topM > Len(Models)
       THEN /\ pc' = "done"
            /\ runs' = runs + 1
            /\ afterFirst' = IF afterFirst = <<>> THEN <<Flags(Models)>> ELSE afterFirst
            /\ UNCHANGED <<topM, topF>>
       ELSE IF topF > Len(Models[topM].Fields)
       THEN /\ topM' = topM + 1
            /\ topF' = 1
            /\ UNCHANGED <<pc, runs, afterFirst>>
       ELSE IF skipsField(Models[topM].Fields[topF])
       THEN /\ topF' = topF + 1
            /\ UNCHANGED <<pc, topM, runs, afterFirst>>
       ELSE /\ pc' = "topMarshal"
            /\ UNCHANGED <<topM, topF, runs, afterFirst>>
    /\ UNCHANGED <<fd, owner, fieldOut, fileName, fileDeps, msgTypes, svcTypes, Models,
                   modelLookup, Services, Imports, emitted, stack, diag, lookups>>

\* if m.CanMarshal { ctx.enableMarshal(ctx.modelLookup[baseType]) }
TopMarshal ==
    /\ pc = "topMarshal"
    /\ LET key == baseTypeOf(Models[topM].Fields[topF])
       IN  IF Models[topM].CanMarshal
           THEN /\ lookups' = lookups \cup {<<topM, topF, key>>}
                /\ Enter("marshal", Lookup(key), stack)
           ELSE /\ pc' = "topUnmarshal"
                /\ UNCHANGED <<Models, stack, lookups>>
    /\ UNCHANGED <<fd, owner, fieldOut, fileName, fileDeps, msgTypes, svcTypes,
                   modelLookup, Services, Imports, emitted, topM, topF, diag, runs,
                   afterFirst>>

\* if m.CanUnmarshal { m, ok := ctx.modelLookup[baseType]; ...; ctx.enableUnmarshal(m) }
TopUnmarshal ==
    /\ pc = "topUnmarshal"
    /\ LET f   == Models[topM].Fields[topF]
           key == baseTypeOf(f)
       IN  IF Models[topM].CanUnmarshal
           THEN /\ lookups' = lookups \cup {<<topM, topF, key>>}
                /\ IF key \notin DOMAIN modelLookup
                   THEN /\ pc' = "fatal"
                        /\ diag' = <<key, f.Name>>
                        /\ UNCHANGED <<Models, stack, topF>>
                   ELSE /\ Enter("unmarshal", Lookup(key), stack)
                        /\ UNCHANGED <<diag, topF>>
           ELSE /\ pc' = "top"
                /\ topF' = topF + 1
                /\ UNCHANGED <<Models, stack, lookups, diag>>
    /\ UNCHANGED <<fd, owner, fieldOut, fileName, fileDeps, msgTypes, svcTypes,
                   modelLookup, Services, Imports, emitted, topM, runs, afterFirst>>

\* One step of the frame on top of the stack: the end of the range over m.Fields
\* (return), a skipped field, or a field's lookup and recursive call
EnableStep(dir) ==
    /\ pc = "enable"
    /\ stack # <<>>
    /\ stack[Len(stack)].dir = dir
    /\ LET fr   == stack[Len(stack)]
           rest == Upto(stack, Len(stack) - 1)
           m    == Models[fr.m]
       IN  IF fr.f > Len(m.Fields)
           THEN /\ stack' = rest
                /\ IF rest # <<>>
                   THEN UNCHANGED <<pc, topF>>
                   ELSE IF dir = "marshal"
                   THEN pc' = "topUnmarshal" /\ UNCHANGED topF
                   ELSE pc' = "top" /\ topF' = topF + 1
                /\ UNCHANGED <<Models, diag, lookups>>
           ELSE IF skipsField(m.Fields[fr.f])
           THEN /\ stack' = Append(rest, Frame(dir, fr.m, fr.f + 1))
                /\ UNCHANGED <<Models, pc, topF, diag, lookups>>
           ELSE LET f   == m.Fields[fr.f]
                    key == recursionKey(f)
                IN  /\ lookups' = lookups \cup {<<fr.m, fr.f, key>>}
                    /\ IF key \notin DOMAIN modelLookup
                       THEN /\ pc' = "fatal"
                            /\ diag' = <<key, f.Name>>
                            /\ UNCHANGED <<Models, stack, topF>>
                       ELSE /\ Enter(dir, Lookup(key),
                                     Append(rest, Frame(dir, fr.m, fr.f + 1)))
                            /\ UNCHANGED <<diag, topF>>
    /\ UNCHANGED <<fd, owner, fieldOut, fileName, fileDeps, msgTypes, svcTypes,
                   modelLookup, Services, Imports, emitted, topM, runs, afterFirst>>

EnableMarshal == EnableStep("marshal")

EnableUnmarshal == EnableStep("unmarshal")

Next ==
    \/ BuildModels
    \/ BuildServices
    \/ MarkBaseline
    \/ AddDateModel
    \/ ApplyImports
    \/ Execute
    \/ CallApplyMarshalFlags
    \/ TopLoop
    \/ TopMarshal
    \/ TopUnmarshal
    \/ EnableMarshal
    \/ EnableUnmarshal

Spec == Init /\ [][Next]_vars

-----------------------------------------------------------------------------
(* Notions the properties are stated in *)

\* The field a recorded lookup was made for, and its descriptor
FieldAt(l) == Models[l[1]].Fields[l[2]]

DescAt(l) == msgTypes[l[1]].field[l[2]]

\* Model i references Model j: a message-typed field of i, not of the date-time
\* type, whose element type (a repeated field's type unwrapped) names j
RefEdge(i, j) ==
    \E k \in 1..Len(Models[i].Fields) :
        LET f == Models[i].Fields[k]
        IN  /\ f.IsMessage
            /\ f.InternalType # StrDateTime
            /\ f.InternalType \in DOMAIN modelLookup
            /\ modelLookup[f.InternalType] = j

RECURSIVE ReachableFrom(_)
ReachableFrom(S) ==
    LET T == S \cup {j \in 1..Len(Models) : \E i \in S : RefEdge(i, j)}
    IN  IF T = S THEN S ELSE ReachableFrom(T)

\* The Models of the schema's messages that are an RPC input (output)
InputModels == {i \in 1..Len(msgTypes) : isInput(Services, Models[i])}

OutputModels == {i \in 1..Len(msgTypes) : isOutput(Services, Models[i])}

\* The dependencies that are not the well-known timestamp schema
OtherDeps == SelectSeq(fileDeps, LAMBDA d : d # TimestampProto)

\* The schema file's name with its extension stripped, plus the binding suffix
OwnBinding == Upto(fileName, Len(fileName) - Len(ProtoExt)) \o PbDartExt

\* Standard resolution of an import path against the directory of the importing
\* file: a rooted path stands for itself
Resolve(dir, imp) ==
    IF imp # <<>> /\ imp[1] = "/" THEN Clean(imp) ELSE Clean(dir \o <<"/">> \o imp)

IntegerKinds == {"TYPE_INT32", "TYPE_INT64", "TYPE_UINT32", "TYPE_UINT64", "TYPE_SINT32",
                 "TYPE_SINT64", "TYPE_FIXED32", "TYPE_FIXED64", "TYPE_SFIXED32",
                 "TYPE_SFIXED64"}

FloatKinds == {"TYPE_DOUBLE", "TYPE_FLOAT"}

\* The wire-encoded type of a field whose element is encoded as t
Wire(f, t) == IF isRepeated(f) THEN t \o StrBrackets ELSE t

-----------------------------------------------------------------------------
(* Properties *)

\* C1: the marshal closure terminates on every finite message-reference graph,
\* self-references and mutual cycles included: enableMarshal and enableUnmarshal
\* never recurse until the stack is exhausted.
C1_ClosureTerminates == pc # "overflow"

\* C2: a repeated field's type List<X> is unwrapped to X before the name lookup at
\* every depth of the chain, and when the closure has completed the Models with
\* CanMarshal (CanUnmarshal) are exactly those reachable from the RPC inputs
\* (outputs) through message-typed, non-date-time fields.
C2_ClosureAtEveryDepth ==
    /\ \A l \in lookups :
          FieldAt(l).IsRepeated /\ ~FieldAt(l).IsMap => l[3] = FieldAt(l).InternalType
    /\ pc = "done" =>
          \A i \in 1..Len(Models) :
              /\ Models[i].CanMarshal <=> i \in ReachableFrom(InputModels)
              /\ Models[i].CanUnmarshal <=> i \in ReachableFrom(OutputModels)

\* C3: in both directions and at every hop, a lookup of a type name that is absent
\* from modelLookup ends in the fatal error whose diagnostic names the missing type
\* and the referencing field; the missing Model is never dereferenced.
C3_MissingTypeIsFatal ==
    \A l \in lookups :
        l[3] \notin DOMAIN modelLookup =>
            pc = "fatal" /\ diag = <<l[3], FieldAt(l).Name>>

\* C4: a field of the well-known timestamp type, singular or repeated, has the
\* date-time element type and a string wire encoding, and the closure never looks
\* a Model up for it.
C4_TimestampNeverLookedUp ==
    /\ pc # "build" =>
          \A i \in 1..Len(msgTypes) : \A k \in 1..Len(msgTypes[i].field) :
              msgTypes[i].field[k].typeName = TimestampTypeName =>
                  /\ Models[i].Fields[k].InternalType = StrDateTime
                  /\ Models[i].Fields[k].JSONType
                        = Wire(msgTypes[i].field[k], StrStringJSON)
    /\ \A l \in lookups : DescAt(l).typeName # TimestampTypeName

\* C5: every dependency's import path, resolved against the directory of the
\* current schema file, is the dependency's binding file in the dependency's own
\* directory.
C5_ImportsResolve ==
    pc = "execute" =>
        \A j \in 1..Len(OtherDeps) :
            Resolve(Dir(fileName), Imports[Len(Imports) - Len(OtherDeps) + j])
                = Join(Dir(OtherDeps[j]), dartFilename(OtherDeps[j]))

\* C6 as stated: with a service the list is [transport, encoding, own binding] and
\* then one entry per dependency; without one it is [encoding, own binding] and
\* then one entry per dependency.
C6_ThreeLeadingImports ==
    pc = "execute" =>
        LET k == IF Services # <<>> THEN 1 ELSE 0
        IN  /\ Len(Imports) = k + 2 + Len(OtherDeps)
            /\ k = 1 => Imports[1] \in {DartAsync, HttpPackage}
            /\ Imports[k + 1] = DartConvert
            /\ Imports[k + 2] = OwnBinding

\* C6 as amended: with a service the list begins with the two transport imports
\* dart:async and package:http/http.dart, then the encoding import and the own
\* binding; without a service it begins with the encoding import and the own
\* binding; then follows exactly one entry per dependency in dependency order,
\* the well-known timestamp schema contributing none.
C6_ImportOrder ==
    pc = "execute" =>
        LET pre == IF Services # <<>> THEN <<DartAsync, HttpPackage>> ELSE <<>>
            k   == Len(pre) + 2
        IN  /\ Len(Imports) = k + Len(OtherDeps)
            /\ Upto(Imports, k) = pre \o <<DartConvert, OwnBinding>>
            /\ \A j \in 1..Len(OtherDeps) :
                  Base(Imports[k + j]) = dartFilename(OtherDeps[j])

\* A file with a service, the timestamp schema and another dependency
C6_Witness ==
    /\ pc = "execute"
    /\ Services # <<>>
    /\ Len(fileDeps) = 2
    /\ fileDeps[1] = TimestampProto
    /\ Len(OtherDeps) = 1
    /\ Len(Imports) = 5

\* C7: every integer kind maps to the integer type and every floating-point kind to
\* the floating type, both with the numeric wire-encoded type.
C7_NumericKinds ==
    fieldOut # <<>> =>
        /\ fd.kind \in IntegerKinds =>
              /\ fieldOut[1].InternalType = StrInt
              /\ fieldOut[1].JSONType = Wire(fd, StrNumber)
        /\ fd.kind \in FloatKinds =>
              /\ fieldOut[1].InternalType = StrDouble
              /\ fieldOut[1].JSONType = Wire(fd, StrNumber)

\* C8: a Field with IsMap has IsRepeated unset, has both sub-fields, and has the
\* compound mapping type built from the key's and the value's types.
C8_MapFieldShape ==
    fieldOut # <<>> /\ fieldOut[1].IsMap =>
        /\ ~fieldOut[1].IsRepeated
        /\ fieldOut[1].MapKeyField # <<>>
        /\ fieldOut[1].MapValueField # <<>>
        /\ fieldOut[1].Type = StrMapOpen \o fieldOut[1].MapKeyField[1].Type \o StrComma
                              \o fieldOut[1].MapValueField[1].Type \o StrClose

\* No flag of a Model goes from true to false in a step
FlagsMonotonic ==
    \A i \in 1..Len(Models) :
        /\ i <= Len(Models')
        /\ Models[i].CanMarshal => Models'[i].CanMarshal
        /\ Models[i].CanUnmarshal => Models'[i].CanUnmarshal

\* C9: no step of the pipeline takes a CanMarshal or CanUnmarshal flag from true to
\* false, and once a first run of ApplyMarshalFlags has completed, a further run
\* changes no flag of any Model.
C9_MonotonicIdempotent ==
    /\ [][FlagsMonotonic]_vars
    /\ [](afterFirst # <<>> => Flags(Models) = afterFirst[1])

\* A second run has completed on a Context in which the first run set a flag that
\* the baseline marking had not set
C9_Witness ==
    /\ pc = "done"
    /\ runs = 2
    /\ \E i \in 1..Len(Models) : Models[i].CanMarshal /\ i \notin InputModels
    /\ \E i \in 1..Len(Models) : Models[i].CanUnmarshal /\ i \notin OutputModels

\* CanMarshal (CanUnmarshal) of Model i handed to the emitter is set exactly when
\* its name is the input (output) type of some method
BaselineOnly(i) ==
    LET m == emitted[1].Models[i]
    IN  /\ m.CanMarshal <=> isInput(emitted[1].Services, m)
        /\ m.CanUnmarshal <=> isOutput(emitted[1].Services, m)

SyntheticLast ==
    LET m == emitted[1].Models[Len(emitted[1].Models)]
    IN  m.Name = StrDate /\ m.Primitive /\ ~m.CanMarshal /\ ~m.CanUnmarshal

\* C10 as stated: every Model handed to the emitter has CanMarshal (CanUnmarshal)
\* exactly when its name is the unqualified input (output) type of some method, and
\* the synthetic Model is last with both flags false.
C10_EveryModelBaseline ==
    pc = "returned" =>
        /\ \A i \in 1..Len(emitted[1].Models) : BaselineOnly(i)
        /\ SyntheticLast

\* C10 as amended: every Model built from a message of the schema has CanMarshal
\* (CanUnmarshal) exactly when its name is the unqualified input (output) type of
\* some method, nested references leaving both flags false; the synthetic Model is
\* last with both flags false, also when a method's type is called Date.
C10_SchemaModelsBaseline ==
    pc = "returned" =>
        /\ Len(emitted[1].Models) = Len(msgTypes) + 1
        /\ \A i \in 1..Len(msgTypes) : BaselineOnly(i)
        /\ SyntheticLast

\* A Model referenced by a field of an RPC input and output is handed over with
\* both flags false
C10_Witness ==
    /\ pc = "returned"
    /\ \E i \in InputModels \cap OutputModels : \E j \in 1..Len(msgTypes) :
          /\ RefEdge(i, j)
          /\ ~emitted[1].Models[j].CanMarshal
          /\ ~emitted[1].Models[j].CanUnmarshal

====
